---------------------------- MODULE Spec2Model ----------------------------
(***************************************************************************)
(* A model of main.py, the Ayush EMR integration service: the start-up     *)
(* load of the two CSV tables, the two lookup endpoints and the FHIR       *)
(* bundle endpoint with its bearer-scheme gate and its pydantic schema.    *)
(*                                                                         *)
(* Requests and responses are modelled as decoded values: a header or a    *)
(* query parameter is absent or a text (a sequence of characters), a body  *)
(* is a JSON value, a response is a status and a JSON value.               *)
(***************************************************************************)
EXTENDS Integers, Sequences, FiniteSets, TLC

VARIABLES
    pc,            \* position of the module-level code: the try block of lines 14-28, then serving
    namasteFile,   \* namaste_codes.csv on disk: missing, or its rows
    patientsFile,  \* patients.csv on disk: missing, or its rows
    NAMASTE_DATA,  \* the terminology table (unbound until pc leaves the try block)
    PATIENT_DATA,  \* the roster table
    req,           \* the request in flight
    resp,          \* the response produced for it
    accepted       \* history: the body /fhir/Bundle returned with its first 200, then also with its latest

vars == <<pc, namasteFile, patientsFile, NAMASTE_DATA, PATIENT_DATA, req, resp, accepted>>

---------------------------------------------------------------------------
(* Bounds of the model *)

\* the longest entry list of a submitted bundle
MaxEntries == 3

\* the longest CSV table (rows); above both result caps
MaxRows == 20

---------------------------------------------------------------------------
(* Texts: a Python str is a sequence of one-character strings *)

\* str.lower() on the characters the model uses
LowerChar(c) ==
    CASE c = "A" -> "a"
      [] c = "B" -> "b"
      [] c = "N" -> "n"
      [] c = "J" -> "j"
      [] OTHER -> c

\* str.lower()
Lower(s) == [i \in 1..Len(s) |-> LowerChar(s[i])]

\* str.startswith(prefix)
StartsWith(s, prefix) ==
    /\ Len(s) >= Len(prefix)
    /\ SubSeq(s, 1, Len(prefix)) = prefix

\* the Python `in` operator on two str: sub occurs in s as a contiguous run
Contains(sub, s) ==
    \E i \in 0..(Len(s) - Len(sub)) : SubSeq(s, i + 1, i + Len(sub)) = sub

\* an absent header or query parameter (dict.get gives None), and a present one
Absent == [present |-> FALSE, value |-> <<>>]
Text(s) == [present |-> TRUE, value |-> s]

\* Python truthiness of an optional text: None and "" are falsy
Truthy(x) == x.present /\ x.value # <<>>

---------------------------------------------------------------------------
(* JSON values *)

JS(s) == [t |-> "string", v |-> s]
JNull == [t |-> "null"]
JArr(items) == [t |-> "array", a |-> items]
JObj(fields) == [t |-> "object", f |-> fields]

\* key is a member of the JSON object o
Has(o, key) == key \in DOMAIN o.f

\* list indices as they appear in an error location
IndexStr(i) == <<"0", "1", "2", "3", "4", "5", "6", "7", "8", "9">>[i + 1]

\* one pydantic error: its type and its location
Err(type, loc) == [type |-> type, loc |-> loc]

RECURSIVE Flatten(_)
\* the errors of a list's items, in item order
Flatten(seqs) == IF seqs = <<>> THEN <<>> ELSE Head(seqs) \o Flatten(Tail(seqs))

---------------------------------------------------------------------------
(* The pydantic models of lines 58-94.  Each validator gives the errors    *)
(* pydantic collects for a value at a location, in field order; no error   *)
(* means the value decodes.                                                *)

\* a field annotated str
str_field(o, key, loc) ==
    IF ~Has(o, key) THEN <<Err("missing", Append(loc, key))>>
    ELSE IF o.f[key].t = "string" THEN <<>>
    ELSE <<Err("string_type", Append(loc, key))>>

\* class HumanName: text: str
HumanName(v, loc) ==
    IF v.t # "object" THEN <<Err("model_attributes_type", loc)>>
    ELSE str_field(v, "text", loc)

\* class FhirReference: reference: str
FhirReference(v, loc) ==
    IF v.t # "object" THEN <<Err("model_attributes_type", loc)>>
    ELSE str_field(v, "reference", loc)

\* coding: List[Dict[str, Any]]
coding_field(o, loc) ==
    IF ~Has(o, "coding") THEN <<Err("missing", Append(loc, "coding"))>>
    ELSE IF o.f.coding.t # "array" THEN <<Err("list_type", Append(loc, "coding"))>>
    ELSE Flatten([i \in 1..Len(o.f.coding.a) |->
            IF o.f.coding.a[i].t = "object" THEN <<>>
            ELSE <<Err("dict_type", loc \o <<"coding", IndexStr(i - 1)>>)>>])

\* class CodeableConcept: coding, text
CodeableConcept(v, loc) ==
    IF v.t # "object" THEN <<Err("model_attributes_type", loc)>>
    ELSE coding_field(v, loc) \o str_field(v, "text", loc)

\* name: List[HumanName]
name_field(o, loc) ==
    IF ~Has(o, "name") THEN <<Err("missing", Append(loc, "name"))>>
    ELSE IF o.f.name.t # "array" THEN <<Err("list_type", Append(loc, "name"))>>
    ELSE Flatten([i \in 1..Len(o.f.name.a) |->
            HumanName(o.f.name.a[i], loc \o <<"name", IndexStr(i - 1)>>)])

\* class Patient: name, birthDate: str | None = None
Patient(v, loc) ==
    name_field(v, loc)
    \o (IF ~Has(v, "birthDate") \/ v.f.birthDate.t \in {"null", "string"} THEN <<>>
        ELSE <<Err("string_type", Append(loc, "birthDate"))>>)

\* class Practitioner: name
Practitioner(v, loc) == name_field(v, loc)

\* Condition with code declared optional (code: CodeableConcept | None = None)
Condition_code_optional(v, loc) ==
    (IF ~Has(v, "subject") THEN <<Err("missing", Append(loc, "subject"))>>
     ELSE FhirReference(v.f.subject, Append(loc, "subject")))
    \o (IF ~Has(v, "code") \/ v.f.code.t = "null" THEN <<>>
        ELSE CodeableConcept(v.f.code, Append(loc, "code")))
    \o (IF ~Has(v, "asserter") \/ v.f.asserter.t = "null" THEN <<>>
        ELSE FhirReference(v.f.asserter, Append(loc, "asserter")))

\* class Condition: subject, code, asserter: FhirReference | None = None
Condition(v, loc) ==
    (IF ~Has(v, "subject") THEN <<Err("missing", Append(loc, "subject"))>>
     ELSE FhirReference(v.f.subject, Append(loc, "subject")))
    \o (IF ~Has(v, "code") THEN <<Err("missing", Append(loc, "code"))>>
        ELSE CodeableConcept(v.f.code, Append(loc, "code")))
    \o (IF ~Has(v, "asserter") \/ v.f.asserter.t = "null" THEN <<>>
        ELSE FhirReference(v.f.asserter, Append(loc, "asserter")))

\* the tags of AnyResource = Union[Patient, Condition, Practitioner]
ResourceTags == {"Patient", "Condition", "Practitioner"}

\* AnyResource, discriminated by resourceType: the tag selects the one variant decoded
AnyResource(v, loc) ==
    IF v.t # "object" THEN <<Err("model_attributes_type", loc)>>
    ELSE IF ~Has(v, "resourceType") THEN <<Err("union_tag_not_found", loc)>>
    ELSE IF v.f.resourceType.t # "string" \/ v.f.resourceType.v \notin ResourceTags
        THEN <<Err("union_tag_invalid", loc)>>
    ELSE LET tag == v.f.resourceType.v
         IN  CASE tag = "Patient" -> Patient(v, Append(loc, tag))
               [] tag = "Practitioner" -> Practitioner(v, Append(loc, tag))
               [] tag = "Condition" -> Condition(v, Append(loc, tag))

\* class BundleEntry: fullUrl: str, resource: AnyResource, request: dict
BundleEntry(v, loc) ==
    IF v.t # "object" THEN <<Err("model_attributes_type", loc)>>
    ELSE str_field(v, "fullUrl", loc)
         \o (IF ~Has(v, "resource") THEN <<Err("missing", Append(loc, "resource"))>>
             ELSE AnyResource(v.f.resource, Append(loc, "resource")))
         \o (IF ~Has(v, "request") THEN <<Err("missing", Append(loc, "request"))>>
             ELSE IF v.f.request.t = "object" THEN <<>>
             ELSE <<Err("dict_type", Append(loc, "request"))>>)

\* the entry list validated fail-fast: only the first invalid entry's errors are kept
entry_field_fail_fast(o, loc) ==
    IF ~Has(o, "entry") THEN <<Err("missing", Append(loc, "entry"))>>
    ELSE IF o.f.entry.t # "array" THEN <<Err("list_type", Append(loc, "entry"))>>
    ELSE LET errs == [i \in 1..Len(o.f.entry.a) |->
                        BundleEntry(o.f.entry.a[i], loc \o <<"entry", IndexStr(i - 1)>>)]
             bad == {i \in 1..Len(o.f.entry.a) : errs[i] # <<>>}
         IN  IF bad = {} THEN <<>>
             ELSE errs[CHOOSE i \in bad : \A j \in bad : i <= j]

\* entry: List[BundleEntry]
entry_field(o, loc) ==
    IF ~Has(o, "entry") THEN <<Err("missing", Append(loc, "entry"))>>
    ELSE IF o.f.entry.t # "array" THEN <<Err("list_type", Append(loc, "entry"))>>
    ELSE Flatten([i \in 1..Len(o.f.entry.a) |->
            BundleEntry(o.f.entry.a[i], loc \o <<"entry", IndexStr(i - 1)>>)])

\* the envelope tag compared without regard to case
bundle_tag_field_any_case(o, loc) ==
    IF ~Has(o, "resourceType") THEN <<Err("missing", Append(loc, "resourceType"))>>
    ELSE IF o.f.resourceType.t = "string" /\ o.f.resourceType.v \in {"Bundle", "bundle", "BUNDLE"}
        THEN <<>>
    ELSE <<Err("literal_error", Append(loc, "resourceType"))>>

\* resourceType: Literal["Bundle"]
bundle_tag_field(o, loc) ==
    IF ~Has(o, "resourceType") THEN <<Err("missing", Append(loc, "resourceType"))>>
    ELSE IF o.f.resourceType.t = "string" /\ o.f.resourceType.v = "Bundle" THEN <<>>
    ELSE <<Err("literal_error", Append(loc, "resourceType"))>>

\* class FhirBundle: resourceType, id, type, entry; the body parameter of line 128
FhirBundle(v) ==
    LET loc == <<"body">>
    IN  IF v.t # "object" THEN <<Err("model_attributes_type", loc)>>
        ELSE bundle_tag_field(v, loc)
             \o str_field(v, "id", loc)
             \o str_field(v, "type", loc)
             \o entry_field(v, loc)

---------------------------------------------------------------------------
(* The CSV tables.  pandas gives one dict per row; a cell is a text or,    *)
(* where the CSV cell is empty, the float NaN.                             *)

StrCell(s) == [kind |-> "str", s |-> s]
NaN == [kind |-> "nan", s |-> <<>>]

\* str(value) as lines 109-110 and 121-122 apply it to a cell
str(cell) == IF cell.kind = "nan" THEN <<"n", "a", "n">> ELSE cell.s

\* record.get(key, '')
Get(record, key) == IF key \in DOMAIN record THEN record[key] ELSE StrCell(<<>>)

\* a file of the working directory: missing, or present with its rows
MissingFile == [exists |-> FALSE, rows |-> <<>>]
CsvFile(rows) == [exists |-> TRUE, rows |-> rows]

\* cell values the generated tables cycle through
NamasteDisplays == <<StrCell(<<"J", "a", "n">>), StrCell(<<"B", "a">>), StrCell(<<"A", "N">>)>>
Icd11Displays == <<NaN, StrCell(<<"b">>)>>
PatientNames == <<StrCell(<<"J", "a", "n">>), StrCell(<<"B", "a">>)>>
Dobs == <<StrCell(<<"1", "9", "9", "0">>), NaN, StrCell(<<"2", "0", "0", "1">>)>>

\* the i-th value of a cycle, shifted by k
Cycle(pool, i, k) == pool[((i + k) % Len(pool)) + 1]

\* namaste_codes.csv with n rows; code numbers the rows in file order
TermsTable(n, k) ==
    [i \in 1..n |-> [code |-> i,
                     namaste_display |-> Cycle(NamasteDisplays, i, k),
                     icd11_display |-> Cycle(Icd11Displays, i, k)]]

\* namaste_codes.csv without an icd11_display column
NarrowTermsTable(n) ==
    [i \in 1..n |-> [code |-> i, namaste_display |-> Cycle(NamasteDisplays, i, 0)]]

\* patients.csv with n rows
RosterTable(n, k) ==
    [i \in 1..n |-> [patient_id |-> i,
                     patient_name |-> Cycle(PatientNames, i, k),
                     dob |-> Cycle(Dobs, i, k)]]

\* the files the lookup specification starts from
TermsFiles ==
    {MissingFile}
    \cup {CsvFile(TermsTable(n, k)) : n \in 0..MaxRows, k \in 0..(Len(NamasteDisplays) - 1)}
    \cup {CsvFile(NarrowTermsTable(n)) : n \in 1..MaxRows}
RosterFiles ==
    {MissingFile}
    \cup {CsvFile(RosterTable(n, k)) : n \in 0..MaxRows, k \in 0..(Len(Dobs) - 1)}

\* the files the full specification starts from: missing, or a few rows
SmallTermsFiles == {MissingFile, CsvFile(TermsTable(Len(NamasteDisplays), 0))}
SmallRosterFiles == {MissingFile, CsvFile(RosterTable(Len(Dobs), 0))}

\* the q parameter of a lookup request
Queries ==
    {Absent, Text(<<>>), Text(<<"a">>), Text(<<"a", "n">>), Text(<<"N", "A", "N">>),
     Text(<<"b">>), Text(<<"J", "A">>), Text(<<"x">>), Text(<<"1", "9">>), Text(<<"0">>)}

---------------------------------------------------------------------------
(* Requests and responses *)

Request(endpoint, authorization, q, body) ==
    [endpoint |-> endpoint, authorization |-> authorization, q |-> q, body |-> body]
NoRequest == Request("none", Absent, Absent, JNull)

Response(status, body) == [status |-> status, body |-> body]
NoResponse == Response(0, JNull)

\* status.HTTP_200_OK
HTTP_200_OK == 200
\* status.HTTP_401_UNAUTHORIZED
HTTP_401_UNAUTHORIZED == 401
\* the status FastAPI gives a request whose declared parameters do not validate
HTTP_422_UNPROCESSABLE == 422

\* FastAPI's answer to a request that fails the route's declared parameters
ValidationErrorResponse(errors) ==
    Response(HTTP_422_UNPROCESSABLE, JObj([detail |-> JArr(errors)]))

\* FastAPI's answer to a raised HTTPException
HTTPException(status_code, detail) ==
    Response(status_code, JObj([detail |-> JS(detail)]))

---------------------------------------------------------------------------
(* GET /api/lookup and GET /api/patients, lines 102-124 *)

\* results[:15]
TermsCap == 15
\* results[:10]
PatientsCap == 10

\* the list comprehension: the records of data, in order, whose test passes
\* (passes[i] is the value of the condition on data[i])
Filter(data, passes) ==
    LET F[i \in 0..Len(data)] ==
            IF i = 0 THEN <<>>
            ELSE IF passes[i] THEN Append(F[i - 1], data[i]) ELSE F[i - 1]
    IN  F[Len(data)]

\* results[:cap]
Slice(results, cap) == SubSeq(results, 1, IF Len(results) < cap THEN Len(results) ELSE cap)

\* the test of lines 109-110
TermMatches(record, query_lower) ==
    \/ Contains(query_lower, Lower(str(Get(record, "namaste_display"))))
    \/ Contains(query_lower, Lower(str(Get(record, "icd11_display"))))

\* the test of lines 121-122
PatientMatches(record, query_lower) ==
    \/ Contains(query_lower, Lower(str(Get(record, "patient_name"))))
    \/ Contains(query_lower, Lower(str(Get(record, "dob"))))

\* results[-cap:]
LastSlice(results, cap) ==
    SubSeq(results, IF Len(results) < cap THEN 1 ELSE Len(results) - cap + 1, Len(results))

\* lookup_namaste_code returning results[-15:]
lookup_namaste_code_last(q) ==
    IF q = <<>> \/ NAMASTE_DATA = <<>> THEN <<>>
    ELSE LET query_lower == Lower(q)
             passes == [i \in 1..Len(NAMASTE_DATA) |-> TermMatches(NAMASTE_DATA[i], query_lower)]
         IN  LastSlice(Filter(NAMASTE_DATA, passes), TermsCap)

\* the body of lookup_namaste_code(q)
lookup_namaste_code(q) ==
    IF q = <<>> \/ NAMASTE_DATA = <<>> THEN <<>>
    ELSE LET query_lower == Lower(q)
             passes == [i \in 1..Len(NAMASTE_DATA) |-> TermMatches(NAMASTE_DATA[i], query_lower)]
         IN  Slice(Filter(NAMASTE_DATA, passes), TermsCap)

\* the body of search_patients(q)
search_patients(q) ==
    IF q = <<>> \/ PATIENT_DATA = <<>> THEN <<>>
    ELSE LET query_lower == Lower(q)
             passes == [i \in 1..Len(PATIENT_DATA) |-> PatientMatches(PATIENT_DATA[i], query_lower)]
         IN  Slice(Filter(PATIENT_DATA, passes), PatientsCap)

\* q: str is a required query parameter: without it the handler is not called
MissingQuery == ValidationErrorResponse(<<Err("missing", <<"query", "q">>)>>)

\* the route GET /api/lookup
GetLookup(request) ==
    IF ~request.q.present THEN MissingQuery
    ELSE Response(HTTP_200_OK, JArr(lookup_namaste_code(request.q.value)))

\* the route GET /api/patients
GetPatients(request) ==
    IF ~request.q.present THEN MissingQuery
    ELSE Response(HTTP_200_OK, JArr(search_patients(request.q.value)))

---------------------------------------------------------------------------
(* POST /fhir/Bundle, lines 51-55 and 127-141 *)

\* "Bearer "
BearerPrefix == <<"B", "e", "a", "r", "e", "r", " ">>

\* check_auth without the scheme test: any non-empty header passes
check_auth_any_scheme(request) == Truthy(request.authorization)

\* check_auth returns True; otherwise it raises the 401
check_auth(request) ==
    LET auth_header == request.authorization
    IN  ~(~Truthy(auth_header) \/ ~StartsWith(auth_header.value, BearerPrefix))

\* the outcome dict of lines 133-140
outcome ==
    JObj([resourceType |-> JS("OperationOutcome"),
          issue |-> JArr(<<JObj([severity |-> JS("information"),
                                 code |-> JS("informational"),
                                 details |-> JObj([text |-> JS("FHIR Bundle received and validated successfully.")])])>>)])

\* submit_fhir_bundle refusing a bundle without entries
submit_fhir_bundle_rejects_empty(bundle) ==
    IF bundle.f.entry.a = <<>>
        THEN HTTPException(400, "Bundle has no entries")
    ELSE Response(HTTP_200_OK, outcome)

\* the body of submit_fhir_bundle(bundle, authorized)
submit_fhir_bundle(bundle) == Response(HTTP_200_OK, outcome)

\* the route POST /fhir/Bundle: the dependency check_auth is solved first,
\* then the body is validated against FhirBundle, then the handler runs
PostFhirBundle(request) ==
    IF ~check_auth(request)
        THEN HTTPException(HTTP_401_UNAUTHORIZED, "Invalid authorization scheme")
    ELSE IF FhirBundle(request.body) # <<>>
        THEN ValidationErrorResponse(FhirBundle(request.body))
    ELSE submit_fhir_bundle(request.body)

---------------------------------------------------------------------------
(* The request bodies and headers the model submits *)

HumanNameOk == JObj([text |-> JS("Jane Doe")])
\* a name whose text is a list, not a text
HumanNameNotText == JObj([text |-> JArr(<<>>)])

PatientOk ==
    JObj([resourceType |-> JS("Patient"), name |-> JArr(<<HumanNameOk>>)])
PractitionerNotText ==
    JObj([resourceType |-> JS("Practitioner"), name |-> JArr(<<HumanNameOk, HumanNameNotText>>)])
ConditionOk ==
    JObj([resourceType |-> JS("Condition"),
          subject |-> JObj([reference |-> JS("urn:1")]),
          code |-> JObj([coding |-> JArr(<<JObj([system |-> JS("NAMASTE")])>>),
                         text |-> JS("Jvara")])])
ConditionNoCode ==
    JObj([resourceType |-> JS("Condition"),
          subject |-> JObj([reference |-> JS("urn:1")])])
ObservationResource == JObj([resourceType |-> JS("Observation")])

EntryOf(resource) ==
    JObj([fullUrl |-> JS("urn:1"), resource |-> resource,
          request |-> JObj([method |-> JS("POST")])])
EntryNoFullUrl ==
    JObj([resource |-> PatientOk, request |-> JObj([method |-> JS("POST")])])

EntrySamples ==
    {EntryOf(PatientOk), EntryOf(ConditionOk), EntryOf(ConditionNoCode),
     EntryOf(ObservationResource), EntryOf(PractitionerNotText), EntryNoFullUrl}

\* the entry lists of at most MaxEntries entries
EntryLists == UNION {[1..n -> EntrySamples] : n \in 0..MaxEntries}

BundleOf(tag, entries) ==
    JObj([resourceType |-> JS(tag), id |-> JS("b1"), type |-> JS("transaction"),
          entry |-> JArr(entries)])
BundleNoId(entries) ==
    JObj([resourceType |-> JS("Bundle"), type |-> JS("transaction"), entry |-> JArr(entries)])
BundleNoTag ==
    JObj([id |-> JS("b1"), type |-> JS("transaction"), entry |-> JArr(<<>>)])
BundleTypeNotText ==
    JObj([resourceType |-> JS("Bundle"), id |-> JS("b1"), type |-> JArr(<<>>), entry |-> JArr(<<>>)])
BundleNoEntry ==
    JObj([resourceType |-> JS("Bundle"), id |-> JS("b1"), type |-> JS("transaction")])
BundleEntryNotList ==
    JObj([resourceType |-> JS("Bundle"), id |-> JS("b1"), type |-> JS("transaction"),
          entry |-> JS("none")])

Bodies ==
    {BundleOf(tag, entries) : tag \in {"Bundle", "bundle"}, entries \in EntryLists}
    \cup {BundleNoId(entries) : entries \in EntryLists}
    \cup {BundleOf("Patient", <<>>), BundleNoTag, BundleTypeNotText, BundleNoEntry,
          BundleEntryNotList, JArr(<<>>)}

\* the token after "Bearer "
Tokens == {<<"x">>, <<"y">>}

AuthHeaders ==
    {Absent, Text(<<"B", "a", "s", "i", "c", " ", "x">>),
     Text(<<"b", "e", "a", "r", "e", "r", " ", "x">>), Text(<<"B", "e", "a", "r", "e", "r">>)}
    \cup {Text(BearerPrefix \o token) : token \in Tokens}

---------------------------------------------------------------------------
(* The state machine *)

InitWith(terms, rosters) ==
    /\ pc = "read_namaste"
    /\ namasteFile \in terms
    /\ patientsFile \in rosters
    /\ NAMASTE_DATA = <<>>
    /\ PATIENT_DATA = <<>>
    /\ req = NoRequest
    /\ resp = NoResponse
    /\ accepted = <<>>

Init == InitWith(SmallTermsFiles, SmallRosterFiles)

InitLookup == InitWith(TermsFiles, RosterFiles)

\* lines 16-17: pd.read_csv("namaste_codes.csv") raises FileNotFoundError or gives the rows
ReadNamaste ==
    /\ pc = "read_namaste"
    /\ IF namasteFile.exists
        THEN /\ NAMASTE_DATA' = namasteFile.rows
             /\ pc' = "read_patients"
        ELSE /\ NAMASTE_DATA' = NAMASTE_DATA
             /\ pc' = "except"
    /\ UNCHANGED <<namasteFile, patientsFile, PATIENT_DATA, req, resp, accepted>>

\* lines 21-22: pd.read_csv("patients.csv")
ReadPatients ==
    /\ pc = "read_patients"
    /\ IF patientsFile.exists
        THEN /\ PATIENT_DATA' = patientsFile.rows
             /\ pc' = "serving"
        ELSE /\ PATIENT_DATA' = PATIENT_DATA
             /\ pc' = "except"
    /\ UNCHANGED <<namasteFile, patientsFile, NAMASTE_DATA, req, resp, accepted>>

\* the except clause emptying only the roster
FileNotFoundKeepsLoaded ==
    /\ pc = "except"
    /\ NAMASTE_DATA' = NAMASTE_DATA
    /\ PATIENT_DATA' = <<>>
    /\ pc' = "serving"
    /\ UNCHANGED <<namasteFile, patientsFile, req, resp, accepted>>

\* lines 25-28: except FileNotFoundError empties both tables; the app is then built
FileNotFound ==
    /\ pc = "except"
    /\ NAMASTE_DATA' = <<>>
    /\ PATIENT_DATA' = <<>>
    /\ pc' = "serving"
    /\ UNCHANGED <<namasteFile, patientsFile, req, resp, accepted>>

\* the service takes a request once the module has run and no request is in flight
Idle == pc = "serving" /\ req = NoRequest

\* GET /api/lookup
LookupNamasteCode ==
    /\ Idle
    /\ \E q \in Queries :
        /\ req' = Request("/api/lookup", Absent, q, JNull)
        /\ resp' = GetLookup(req')
    /\ UNCHANGED <<pc, namasteFile, patientsFile, NAMASTE_DATA, PATIENT_DATA, accepted>>

\* GET /api/patients
SearchPatients ==
    /\ Idle
    /\ \E q \in Queries :
        /\ req' = Request("/api/patients", Absent, q, JNull)
        /\ resp' = GetPatients(req')
    /\ UNCHANGED <<pc, namasteFile, patientsFile, NAMASTE_DATA, PATIENT_DATA, accepted>>

\* POST /fhir/Bundle keeping each accepted bundle in the roster
SubmitFhirBundleStoring ==
    /\ Idle
    /\ \E authorization \in AuthHeaders, body \in Bodies :
        /\ req' = Request("/fhir/Bundle", authorization, Absent, body)
        /\ resp' = PostFhirBundle(req')
    /\ accepted' = IF resp'.status # HTTP_200_OK THEN accepted
                   ELSE IF accepted = <<>> THEN <<resp'.body>>
                   ELSE <<accepted[1], resp'.body>>
    /\ PATIENT_DATA' = IF resp'.status = HTTP_200_OK /\ Len(PATIENT_DATA) < MaxRows
                       THEN Append(PATIENT_DATA, [patient_id |-> Len(PATIENT_DATA) + 1,
                                                  patient_name |-> StrCell(<<"J", "a", "n">>),
                                                  dob |-> NaN])
                       ELSE PATIENT_DATA
    /\ UNCHANGED <<pc, namasteFile, patientsFile, NAMASTE_DATA>>

\* POST /fhir/Bundle
SubmitFhirBundle ==
    /\ Idle
    /\ \E authorization \in AuthHeaders, body \in Bodies :
        /\ req' = Request("/fhir/Bundle", authorization, Absent, body)
        /\ resp' = PostFhirBundle(req')
    /\ accepted' = IF resp'.status # HTTP_200_OK THEN accepted
                   ELSE IF accepted = <<>> THEN <<resp'.body>>
                   ELSE <<accepted[1], resp'.body>>
    /\ UNCHANGED <<pc, namasteFile, patientsFile, NAMASTE_DATA, PATIENT_DATA>>

\* the response leaves; nothing of the request stays behind
SendResponse ==
    /\ pc = "serving"
    /\ req # NoRequest
    /\ req' = NoRequest
    /\ resp' = NoResponse
    /\ UNCHANGED <<pc, namasteFile, patientsFile, NAMASTE_DATA, PATIENT_DATA, accepted>>

Next ==
    \/ ReadNamaste
    \/ ReadPatients
    \/ FileNotFound
    \/ LookupNamasteCode
    \/ SearchPatients
    \/ SubmitFhirBundle
    \/ SendResponse

Spec == Init /\ [][Next]_vars

NextLookup ==
    \/ ReadNamaste
    \/ ReadPatients
    \/ FileNotFound
    \/ LookupNamasteCode
    \/ SearchPatients
    \/ SendResponse

SpecLookup == InitLookup /\ [][NextLookup]_vars

---------------------------------------------------------------------------
(* Vocabulary of the properties *)

IsBundleRequest == req.endpoint = "/fhir/Bundle"
IsLookupRequest == req.endpoint = "/api/lookup"
IsPatientsRequest == req.endpoint = "/api/patients"

\* the Authorization header is present and starts with "Bearer "
HasBearerScheme ==
    /\ req.authorization.present
    /\ StartsWith(req.authorization.value, BearerPrefix)

\* key of object o holds the text s
HoldsText(o, key, s) == Has(o, key) /\ o.f[key].t = "string" /\ o.f[key].v = s

\* an OperationOutcome with exactly one issue, of the given severity and code
IsOutcome(body, severity, code) ==
    /\ body.t = "object"
    /\ HoldsText(body, "resourceType", "OperationOutcome")
    /\ Has(body, "issue")
    /\ body.f.issue.t = "array"
    /\ Len(body.f.issue.a) = 1
    /\ body.f.issue.a[1].t = "object"
    /\ HoldsText(body.f.issue.a[1], "severity", severity)
    /\ HoldsText(body.f.issue.a[1], "code", code)

IsSuccess(r) == r.status = 200 /\ IsOutcome(r.body, "information", "informational")

\* the validation errors a response carries
ErrorsOf(r) ==
    IF r.status = 422 /\ r.body.t = "object" /\ Has(r.body, "detail") /\ r.body.f.detail.t = "array"
    THEN r.body.f.detail.a
    ELSE <<>>

HasError(type, loc) ==
    \E k \in 1..Len(ErrorsOf(resp)) : ErrorsOf(resp)[k] = Err(type, loc)

\* the entries of a submitted body
Entries(b) ==
    IF b.t = "object" /\ Has(b, "entry") /\ b.f.entry.t = "array" THEN b.f.entry.a ELSE <<>>

\* an entry with fullUrl, request and a resource that decodes as one of the three variants
EntryValid(e) ==
    /\ e.t = "object"
    /\ Has(e, "fullUrl") /\ e.f.fullUrl.t = "string"
    /\ Has(e, "request") /\ e.f.request.t = "object"
    /\ Has(e, "resource") /\ AnyResource(e.f.resource, <<>>) = <<>>

InvalidEntries(b) == {i \in 1..Len(Entries(b)) : ~EntryValid(Entries(b)[i])}

\* the Bundle schema as section 3 of the specification words it
SatisfiesBundleSchema(b) ==
    /\ b.t = "object"
    /\ HoldsText(b, "resourceType", "Bundle")
    /\ Has(b, "id") /\ b.f.id.t = "string"
    /\ Has(b, "type") /\ b.f.type.t = "string"
    /\ Has(b, "entry") /\ b.f.entry.t = "array"
    /\ InvalidEntries(b) = {}

\* the resource of entry i (1-based) has the given resourceType
ResourceTagAt(b, i, tag) ==
    /\ i <= Len(Entries(b))
    /\ Entries(b)[i].t = "object"
    /\ Has(Entries(b)[i], "resource")
    /\ Entries(b)[i].f.resource.t = "object"
    /\ HoldsText(Entries(b)[i].f.resource, "resourceType", tag)

\* the number an index text stands for
IndexOf(text) == CHOOSE i \in 0..9 : IndexStr(i) = text

\* the positions, in the error list, of the errors located inside the entry list
EntryErrorPositions ==
    {k \in 1..Len(ErrorsOf(resp)) :
        /\ Len(ErrorsOf(resp)[k].loc) >= 3
        /\ ErrorsOf(resp)[k].loc[2] = "entry"}

\* the entry indices (1-based) the error list names
ErrorEntryIndices == {IndexOf(ErrorsOf(resp)[k].loc[3]) + 1 : k \in EntryErrorPositions}

---------------------------------------------------------------------------
(* C1 *)

\* C1: every POST /fhir/Bundle whose Authorization header starts with
\* "Bearer " and whose body satisfies the Bundle schema (entry list possibly
\* empty) is answered 200 with an OperationOutcome holding exactly one issue,
\* severity "information", code "informational".
C1_ValidBundleAccepted ==
    (IsBundleRequest /\ HasBearerScheme /\ SatisfiesBundleSchema(req.body))
        => IsSuccess(resp)

\* the example of section 8 has been posted with "Bearer x" and answered 200
C1_Witness ==
    /\ IsBundleRequest
    /\ req.authorization = Text(BearerPrefix \o <<"x">>)
    /\ req.body = BundleOf("Bundle", <<EntryOf(PatientOk)>>)
    /\ IsSuccess(resp)

---------------------------------------------------------------------------
(* C2 *)

---------------------------------------------------------------------------
(* C3 *)

\* the 1-based position of the first invalid entry
FirstInvalid(b) == CHOOSE i \in InvalidEntries(b) : \A j \in InvalidEntries(b) : i <= j

\* C3 as claimed: validation is fail-fast, so the error of a rejected bundle
\* identifies the first invalid entry and no other.
C3_FailFast ==
    (IsBundleRequest /\ HasBearerScheme /\ InvalidEntries(req.body) # {})
        => /\ ~IsSuccess(resp)
           /\ ErrorEntryIndices = {FirstInvalid(req.body)}

\* C3 as amended: validation is all-or-nothing but collects: an authorized
\* bundle with one or more invalid entries never gets the success outcome,
\* and the 422 lists, in entry order, errors for every invalid entry and for
\* no valid one, each located at its entry's index; an "Observation" at entry
\* 2 gives an unknown-tag error (union_tag_invalid) located at entry 2.
C3_AllOrNothing ==
    (IsBundleRequest /\ HasBearerScheme /\ InvalidEntries(req.body) # {})
        => /\ resp.status = 422
           /\ ~IsSuccess(resp)
           /\ ErrorEntryIndices = InvalidEntries(req.body)
           /\ \A k, l \in EntryErrorPositions :
                k < l => IndexOf(ErrorsOf(resp)[k].loc[3]) <= IndexOf(ErrorsOf(resp)[l].loc[3])
           /\ ResourceTagAt(req.body, 3, "Observation")
                => HasError("union_tag_invalid", <<"body", "entry", "2", "resource">>)

\* a bundle whose entries 0 and 2 are invalid, entry 2 an Observation, has been rejected
C3_Witness ==
    /\ IsBundleRequest
    /\ HasBearerScheme
    /\ InvalidEntries(req.body) = {1, 3}
    /\ ResourceTagAt(req.body, 3, "Observation")
    /\ resp.status = 422

---------------------------------------------------------------------------
(* C4 *)

\* C4: every failed bundle submission (schema violation or authorization
\* failure) is answered with an OperationOutcome whose issue has severity
\* "error", never with another payload.
C4_UniformErrorEnvelope ==
    (IsBundleRequest /\ ~IsSuccess(resp))
        => /\ resp.body.t = "object"
           /\ HoldsText(resp.body, "resourceType", "OperationOutcome")
           /\ Has(resp.body, "issue")
           /\ resp.body.f.issue.t = "array"
           /\ \A k \in 1..Len(resp.body.f.issue.a) :
                /\ resp.body.f.issue.a[k].t = "object"
                /\ HoldsText(resp.body.f.issue.a[k], "severity", "error")

---------------------------------------------------------------------------
(* C5 *)

\* the first min(cap, n) of the n records of data at the positions M, in load order
FirstMatches(data, M, cap) ==
    LET n == IF Cardinality(M) < cap THEN Cardinality(M) ELSE cap
    IN  [j \in 1..n |-> data[CHOOSE i \in M : Cardinality({m \in M : m <= i}) = j]]

\* the field holds a text that contains q, case ignored
FieldContains(record, key, q) ==
    /\ key \in DOMAIN record
    /\ record[key].kind = "str"
    /\ Contains(Lower(q), Lower(record[key].s))

\* the field, rendered by str(), contains q, case ignored
RenderedFieldContains(record, key, q) ==
    /\ key \in DOMAIN record
    /\ Contains(Lower(q), Lower(str(record[key])))

---------------------------------------------------------------------------
(* C6 *)

\* C6: GET /api/lookup and GET /api/patients are answered with a JSON array
\* whether q is absent, empty or any text, and with the empty array when q is
\* absent or empty or the table is empty.
C6_LookupNeverErrors ==
    /\ IsLookupRequest =>
        /\ resp.status = 200
        /\ resp.body.t = "array"
        /\ (~Truthy(req.q) \/ NAMASTE_DATA = <<>>) => resp.body.a = <<>>
    /\ IsPatientsRequest =>
        /\ resp.status = 200
        /\ resp.body.t = "array"
        /\ (~Truthy(req.q) \/ PATIENT_DATA = <<>>) => resp.body.a = <<>>

---------------------------------------------------------------------------
(* C7 *)

\* the body is an object whose resourceType is present and is not "Bundle"
TagDiffers(b) ==
    /\ b.t = "object"
    /\ Has(b, "resourceType")
    /\ ~HoldsText(b, "resourceType", "Bundle")

\* C7: a bundle whose outer resourceType differs from "Bundle", case variants
\* included, never gets the success outcome, whatever its entries hold, and
\* once past the bearer gate is rejected with the tag-mismatch error
\* (literal_error) located at resourceType.
C7_TagMismatchRejected ==
    (IsBundleRequest /\ TagDiffers(req.body))
        => /\ ~IsSuccess(resp)
           /\ resp.status # 200
           /\ HasBearerScheme
                => (resp.status = 422 /\ HasError("literal_error", <<"body", "resourceType">>))

\* a bundle tagged "bundle" with valid entries has been posted with a bearer header and rejected
C7_Witness ==
    /\ IsBundleRequest
    /\ HasBearerScheme
    /\ req.body = BundleOf("bundle", <<EntryOf(PatientOk), EntryOf(ConditionOk)>>)
    /\ resp.status = 422

---------------------------------------------------------------------------
(* C8 *)

\* entry i (1-based) is a Condition resource without the code field
ConditionWithoutCodeAt(b, i) ==
    /\ ResourceTagAt(b, i, "Condition")
    /\ ~Has(Entries(b)[i].f.resource, "code")

\* C8: for every entry index i, an authorized bundle whose entry i is a
\* Condition without code is rejected with a missing-field error whose
\* location names that entry index and the field code.
C8_MissingCodeLocated ==
    (IsBundleRequest /\ HasBearerScheme)
        => \A i \in 1..Len(Entries(req.body)) :
            ConditionWithoutCodeAt(req.body, i)
                => /\ resp.status = 422
                   /\ HasError("missing",
                        <<"body", "entry", IndexStr(i - 1), "resource", "Condition", "code">>)

\* a bundle with a code-less Condition at entry 1, after a valid entry 0, has been rejected
C8_Witness ==
    /\ IsBundleRequest
    /\ HasBearerScheme
    /\ Len(Entries(req.body)) >= 2
    /\ InvalidEntries(req.body) = {2}
    /\ ConditionWithoutCodeAt(req.body, 2)
    /\ resp.status = 422

---------------------------------------------------------------------------
(* C9 *)

\* C9: once the service serves, no request (lookup or submission, accepted or
\* rejected) changes the two tables, and a later accepted submission gets the
\* same success outcome as the first accepted one.
C9_NoStateLeft ==
    [][/\ pc = "serving" => (NAMASTE_DATA' = NAMASTE_DATA /\ PATIENT_DATA' = PATIENT_DATA)
       /\ Len(accepted') = 2 => accepted'[1] = accepted'[2]]_vars

\* with both tables loaded, a submission has been accepted after an earlier accepted one
C9_Witness ==
    /\ NAMASTE_DATA # <<>>
    /\ PATIENT_DATA # <<>>
    /\ IsBundleRequest
    /\ IsSuccess(resp)
    /\ Len(accepted) = 2

---------------------------------------------------------------------------
(* C10 *)

=============================================================================
